---- MODULE Spec2Model ----
(***************************************************************************)
(* Model of stopwatch.py: the lap/best-lap state machine, its polling      *)
(* render loop, the RawIn terminal scope and the SIGINT handler.           *)
(*                                                                         *)
(* Time.  The clock counts ticks of 50 ms, so the frame interval of 0.1 s   *)
(* (line 135) is 2 ticks and the poll timeout of 0.01 s (line 113) is less *)
(* than a tick: a poll that finds no key may return before the clock's     *)
(* reading changes.  fmt_time works on durations counted in units of       *)
(* 0.2 ms, fine enough to hold a sub-millisecond part and free of rounding *)
(* ties at the third decimal.  Text is a sequence of one-character         *)
(* strings.                                                                *)
(***************************************************************************)
EXTENDS Integers, Sequences, FiniteSets, TLC

\* ---------------------------------------------------------------- bounds
\* What the environment does during a run: ticks of the clock, key bytes typed,
\* interrupts delivered, errors raised, clock anomalies.
MaxEvents == 5

\* ------------------------------------------------------------- constants
FrameInterval == 2      \* 0.1 s, in ticks
UnitsPerTick == 250     \* 50 ms in units of 0.2 ms
UnitsPerMs == 5
UnitsPerMin == 300000

TRIG == {" ", "\n", "\r"}
CLEAR_LAST == {"c", "C"}
CLEAR_BEST == {"b", "B"}
QUIT == {"q", "Q"}

\* The key bytes the environment types: one of each class, and one of no class.
Keys == {" ", "c", "b", "q", "x"}

\* Python's None and a set value, as sequences of length 0 and 1.
None == <<>>
Some(v) == <<v>>
Val(o) == o[1]

\* ------------------------------------------------------------ formatting
Digit(d) == <<"0", "1", "2", "3", "4", "5", "6", "7", "8", "9">>[d + 1]

RECURSIVE NumStr(_)
NumStr(n) == IF n < 10 THEN <<Digit(n)>> ELSE NumStr(n \div 10) \o <<Digit(n % 10)>>

\* str of an int, sign included
IntStr(n) == IF n < 0 THEN <<"-">> \o NumStr(0 - n) ELSE NumStr(n)

RECURSIVE ZeroPad(_, _)
\* zero fill to a minimum width; the fill goes after a sign
ZeroPad(s, w) ==
    IF Len(s) >= w THEN s
    ELSE IF Len(s) > 0 /\ Head(s) = "-" THEN <<"-">> \o ZeroPad(Tail(s), w - 1)
    ELSE ZeroPad(<<"0">> \o s, w)

\* Fmt02d without the zero fill
Fmt02dNoPad(m) == IntStr(m)

\* f"{m:02d}"
Fmt02d(m) == ZeroPad(IntStr(m), 2)

\* f"{s:06.3f}" of s seconds given in units of 0.2 ms, 0 <= s: the value is
\* rounded to the nearest millisecond, printed with 3 decimals, zero filled to 6.
Fmt06_3f(s) ==
    LET ms == (s + 2) \div UnitsPerMs
    IN  ZeroPad(NumStr(ms \div 1000) \o <<".">> \o ZeroPad(NumStr(ms % 1000), 3), 6)

Max0(t) == IF t < 0 THEN 0 ELSE t

\* fmt_time without its max(0.0, t)
fmt_time_noclamp(t) ==
    LET m == t \div UnitsPerMin
        s == t % UnitsPerMin
    IN  Fmt02d(m) \o <<":">> \o Fmt06_3f(s)

fmt_time(t) ==
    LET m == Max0(t) \div UnitsPerMin
        s == Max0(t) % UnitsPerMin
    IN  Fmt02d(m) \o <<":">> \o Fmt06_3f(s)

Placeholder == <<"-", "-">>

\* a duration of the loop (ticks) as fmt_time's argument
Secs(d) == d * UnitsPerTick

\* ----------------------------------------------------------------- state
VARIABLES
    pc,         \* the statement the process is about to execute
    site,       \* the call site of the render() in progress
    rargs,      \* render's parameters current_s, last_s, best_s
    start, last_lap, best_lap, last_draw,    \* lines 99-102
    now, elapsed, ch,                        \* the loop's locals
    img,        \* the persistent drawing buffer (line 21)
    panel,      \* what the display last received
    tattr,      \* the terminal's attributes
    old,        \* RawIn.old
    exc,        \* the exception in flight while the with and finally blocks unwind
    exitBy,     \* how the process ended
    clock,      \* time.monotonic(), in ticks
    fdq,        \* key bytes in the terminal's input queue (what select sees)
    pybuf,      \* key bytes already read into sys.stdin.buffer
    \* history kept for the properties
    nev,        \* events of the environment so far
    interrupted,\* an interrupt was delivered
    laps,       \* durations recorded since process start or the last Clear-best
    lapAt,      \* the clock when the last Lap-trigger was handled
    keysRead,   \* key bytes read_key has returned
    iterPushed, \* a frame was pushed since the loop last read the clock
    shownBy,    \* call site of the frame the display last received
    shownArgs,  \* the durations that frame was rendered from
    gap,        \* ticks between the last two pushes, counted up to the frame interval
    sincePush,  \* ticks since the last push, counted likewise
    nfinal,     \* final blank frames pushed
    cbreakSet,  \* tty.setcbreak has run
    npush,      \* frames the render() call in progress, or the last one, has pushed
    \* fmt_time called on its own
    fmt_arg,    \* its argument t, in units of 0.2 ms
    fmt_ret     \* the text it returned

call == <<site, rargs>>
watch == <<start, last_lap, best_lap, last_draw>>
locals == <<now, elapsed, ch>>
term == <<tattr, old>>
ctl == <<exc, exitBy>>
keys == <<fdq, pybuf>>
lapHist == <<laps, lapAt>>
shown == <<shownBy, shownArgs, gap>>
fmt == <<fmt_arg, fmt_ret>>
vars == <<pc, call, watch, locals, img, panel, term, ctl, clock, keys,
          nev, interrupted, lapHist, keysRead, iterPushed, shown, sincePush,
          nfinal, cbreakSet, npush, fmt>>

\* A buffer: the texts drawn on black since the last clear (<<>>: not drawn).
Black == [best |-> <<>>, cur |-> <<>>, last |-> <<>>, hint |-> FALSE]
NoArgs == [cur |-> 0, last |-> None, best |-> None]

RenderPcs == {"r_clear", "r_top", "r_bottom", "r_push"}
EnterPcs == {"enter_get", "enter_set", "enter_ret"}
LoopPcs == {"top", "poll", "dispatch", "mark"}

\* the terminal's attributes at process start
Cooked == [echo |-> TRUE, icanon |-> TRUE]

\* time.monotonic() at process start: the system has been up for longer than
\* a frame interval
StartClock == FrameInterval + 1

\* how far a clock anomaly sets the clock back
RegressSteps == {1, 3}

Init ==
    /\ clock = StartClock
    /\ tattr = Cooked
    /\ pc = "first"
    /\ site = "none"
    /\ rargs = NoArgs
    /\ start = clock
    /\ last_lap = None
    /\ best_lap = None
    /\ last_draw = 0
    /\ now = 0 /\ elapsed = 0 /\ ch = None
    /\ img = Black
    /\ panel = Black
    /\ old = None
    /\ exc = "none"
    /\ exitBy = "running"
    /\ fdq = <<>> /\ pybuf = <<>>
    /\ nev = 0
    /\ interrupted = FALSE
    /\ laps = <<>>
    /\ lapAt = None
    /\ keysRead = 0
    /\ iterPushed = FALSE
    /\ shownBy = "none"
    /\ shownArgs = NoArgs
    /\ gap = None
    /\ sincePush = 0
    /\ nfinal = 0
    /\ cbreakSet = FALSE
    /\ npush = 0
    /\ fmt_arg = 0
    /\ fmt_ret = <<>>

\* ---------------------------------------------------------------- render
\* render(current_s, last_s, best_s) called from call site s
CallRender(s, current_s, last_s, best_s) ==
    /\ pc' = "r_clear"
    /\ site' = s
    /\ rargs' = [cur |-> current_s, last |-> last_s, best |-> best_s]
    /\ npush' = 0

\* lines 51 and 61
OptText(o) == IF o = None THEN Placeholder ELSE fmt_time(Secs(Val(o)))

\* line 48
RenderClear ==
    /\ pc = "r_clear"
    /\ img' = Black
    /\ pc' = "r_top"
    /\ UNCHANGED <<call, watch, locals, panel, term, ctl, clock, keys>>
    /\ UNCHANGED <<nev, interrupted, lapHist, keysRead, iterPushed, shown, sincePush,
                   nfinal, cbreakSet>>
    /\ UNCHANGED <<fmt, npush>>

\* lines 51-58: the best lap and the main clock
RenderTop ==
    /\ pc = "r_top"
    /\ img' = [img EXCEPT !.best = OptText(rargs.best),
                          !.cur = fmt_time(Secs(rargs.cur))]
    /\ pc' = "r_bottom"
    /\ UNCHANGED <<call, watch, locals, panel, term, ctl, clock, keys>>
    /\ UNCHANGED <<nev, interrupted, lapHist, keysRead, iterPushed, shown, sincePush,
                   nfinal, cbreakSet>>
    /\ UNCHANGED <<fmt, npush>>

\* RenderBottom without lines 61-65: the last lap is not drawn
RenderBottomSkipsLast ==
    /\ pc = "r_bottom"
    /\ img' = [img EXCEPT !.hint = TRUE]
    /\ pc' = "r_push"
    /\ UNCHANGED <<call, watch, locals, panel, term, ctl, clock, keys>>
    /\ UNCHANGED <<nev, interrupted, lapHist, keysRead, iterPushed, shown, sincePush,
                   nfinal, cbreakSet>>
    /\ UNCHANGED <<fmt, npush>>

\* lines 61-70: the last lap and the hints
RenderBottom ==
    /\ pc = "r_bottom"
    /\ img' = [img EXCEPT !.last = OptText(rargs.last), !.hint = TRUE]
    /\ pc' = "r_push"
    /\ UNCHANGED <<call, watch, locals, panel, term, ctl, clock, keys>>
    /\ UNCHANGED <<nev, interrupted, lapHist, keysRead, iterPushed, shown, sincePush,
                   nfinal, cbreakSet>>
    /\ UNCHANGED <<fmt, npush>>

\* where render() returns to: line 107 after the first frame, line 137 after a
\* tick render, the loop's next iteration after a continue
ReturnPc(s) ==
    IF s = "first" THEN "try" ELSE IF s = "tick" THEN "mark" ELSE "top"

\* disp.display(img) called from call site s with the durations a
Push(s, a) ==
    /\ panel' = img
    /\ shownBy' = s
    /\ shownArgs' = a
    /\ gap' = IF shownBy = "none" THEN None ELSE Some(sincePush)
    /\ sincePush' = 0
    /\ iterPushed' = TRUE

\* line 73, and the return
RenderPush ==
    /\ pc = "r_push"
    /\ Push(site, rargs)
    /\ npush' = npush + 1
    /\ pc' = ReturnPc(site)
    /\ UNCHANGED <<call, watch, locals, img, term, ctl, clock, keys>>
    /\ UNCHANGED <<nev, interrupted, lapHist, keysRead, nfinal, cbreakSet>>
    /\ UNCHANGED fmt

\* line 105
FirstFrame ==
    /\ pc = "first"
    /\ CallRender("first", 0, last_lap, best_lap)
    /\ UNCHANGED <<watch, locals, img, panel, term, ctl, clock, keys>>
    /\ UNCHANGED <<nev, interrupted, lapHist, keysRead, iterPushed, shown, sincePush,
                   nfinal, cbreakSet>>
    /\ UNCHANGED fmt

\* ----------------------------------------------------------------- RawIn
\* line 107: the try block is entered, then RawIn() is built
Try ==
    /\ pc = "try"
    /\ pc' = "enter_get"
    /\ UNCHANGED <<call, watch, locals, img, panel, term, ctl, clock, keys>>
    /\ UNCHANGED <<nev, interrupted, lapHist, keysRead, iterPushed, shown, sincePush,
                   nfinal, cbreakSet>>
    /\ UNCHANGED <<fmt, npush>>

\* lines 83-84
EnterGet ==
    /\ pc = "enter_get"
    /\ old' = Some(tattr)
    /\ pc' = "enter_set"
    /\ UNCHANGED <<call, watch, locals, img, panel, tattr, ctl, clock, keys>>
    /\ UNCHANGED <<nev, interrupted, lapHist, keysRead, iterPushed, shown, sincePush,
                   nfinal, cbreakSet>>
    /\ UNCHANGED <<fmt, npush>>

\* tty.setcbreak: ECHO and ICANON off
SetCbreak(a) == [a EXCEPT !.echo = FALSE, !.icanon = FALSE]

\* line 85
EnterSet ==
    /\ pc = "enter_set"
    /\ tattr' = SetCbreak(tattr)
    /\ cbreakSet' = TRUE
    /\ pc' = "enter_ret"
    /\ UNCHANGED <<call, watch, locals, img, panel, old, ctl, clock, keys>>
    /\ UNCHANGED <<nev, interrupted, lapHist, keysRead, iterPushed, shown, sincePush,
                   nfinal>>
    /\ UNCHANGED <<fmt, npush>>

\* line 86: __enter__ returns and the with block's body begins
EnterRet ==
    /\ pc = "enter_ret"
    /\ pc' = "top"
    /\ UNCHANGED <<call, watch, locals, img, panel, term, ctl, clock, keys>>
    /\ UNCHANGED <<nev, interrupted, lapHist, keysRead, iterPushed, shown, sincePush,
                   nfinal, cbreakSet>>
    /\ UNCHANGED <<fmt, npush>>

\* termios.tcsetattr(fd, TCSADRAIN, saved)
Restore(saved) == Val(saved)

\* line 88: __exit__, then the finally block
ExitRestore ==
    /\ pc = "exit_restore"
    /\ tattr' = Restore(old)
    /\ pc' = "fin_clear"
    /\ UNCHANGED <<call, watch, locals, img, panel, old, ctl, clock, keys>>
    /\ UNCHANGED <<nev, interrupted, lapHist, keysRead, iterPushed, shown, sincePush,
                   nfinal, cbreakSet>>
    /\ UNCHANGED <<fmt, npush>>

\* FinClear without line 139: the buffer keeps the last drawing
FinClearSkipped ==
    /\ pc = "fin_clear"
    /\ pc' = "fin_push"
    /\ UNCHANGED <<call, watch, locals, img, panel, term, ctl, clock, keys>>
    /\ UNCHANGED <<nev, interrupted, lapHist, keysRead, iterPushed, shown, sincePush,
                   nfinal, cbreakSet>>
    /\ UNCHANGED <<fmt, npush>>

\* line 139
FinClear ==
    /\ pc = "fin_clear"
    /\ img' = Black
    /\ pc' = "fin_push"
    /\ UNCHANGED <<call, watch, locals, panel, term, ctl, clock, keys>>
    /\ UNCHANGED <<nev, interrupted, lapHist, keysRead, iterPushed, shown, sincePush,
                   nfinal, cbreakSet>>
    /\ UNCHANGED <<fmt, npush>>

\* line 140, then the process ends: normally, or with the exception in flight
FinPush ==
    /\ pc = "fin_push"
    /\ Push("final", NoArgs)
    /\ nfinal' = nfinal + 1
    /\ pc' = "done"
    /\ exitBy' = IF exc = "none" THEN "end" ELSE exc
    /\ UNCHANGED <<call, watch, locals, img, term, exc, clock, keys>>
    /\ UNCHANGED <<nev, interrupted, lapHist, keysRead, cbreakSet>>
    /\ UNCHANGED <<fmt, npush>>

\* ------------------------------------------------------------------ loop
\* lines 110-111
Top ==
    /\ pc = "top"
    /\ now' = clock
    /\ elapsed' = now' - start
    /\ iterPushed' = FALSE
    /\ pc' = "poll"
    /\ UNCHANGED <<call, watch, ch, img, panel, term, ctl, clock, keys>>
    /\ UNCHANGED <<nev, interrupted, lapHist, keysRead, shown, sincePush,
                   nfinal, cbreakSet>>
    /\ UNCHANGED <<fmt, npush>>

\* line 113, read_key(0.01) (lines 90-93).  select() looks at the terminal's
\* queue only; read(1) serves sys.stdin.buffer first and otherwise fills it
\* with all the queue holds.  With nothing to read, select() returns when the
\* timeout has passed, which is within the tick.
ReadKey ==
    /\ pc = "poll"
    /\ \/ /\ fdq # <<>>
          /\ IF pybuf # <<>>
             THEN ch' = Some(Head(pybuf)) /\ pybuf' = Tail(pybuf) /\ fdq' = fdq
             ELSE ch' = Some(Head(fdq)) /\ pybuf' = Tail(fdq) /\ fdq' = <<>>
          /\ keysRead' = keysRead + 1
       \/ /\ fdq = <<>>
          /\ ch' = None
          /\ UNCHANGED <<fdq, pybuf, keysRead>>
    /\ pc' = "dispatch"
    /\ UNCHANGED <<call, watch, now, elapsed, img, panel, term, ctl, clock>>
    /\ UNCHANGED <<nev, interrupted, lapHist, iterPushed, shown, sincePush,
                   nfinal, cbreakSet>>
    /\ UNCHANGED <<fmt, npush>>

\* `if ch:` and `ch in S`
KeyIn(S) == ch # None /\ Val(ch) \in S

\* lines 115-116
Quit ==
    /\ pc = "dispatch"
    /\ KeyIn(QUIT)
    /\ pc' = "exit_restore"
    /\ UNCHANGED <<call, watch, locals, img, panel, term, ctl, clock, keys>>
    /\ UNCHANGED <<nev, interrupted, lapHist, keysRead, iterPushed, shown, sincePush,
                   nfinal, cbreakSet>>
    /\ UNCHANGED <<fmt, npush>>

\* NewBest without the comparison of line 120: the best lap follows the last
NewBestAlways(last, best) == last

\* NewBest with the comparison of line 120 turned round
NewBestLarger(last, best) == IF best = None \/ Val(last) > Val(best) THEN last ELSE best

\* NewBest that keeps the first lap it was given
NewBestKeepsFirst(last, best) == IF best = None THEN last ELSE best

\* lines 120-121
NewBest(last, best) == IF best = None \/ Val(last) < Val(best) THEN last ELSE best

\* Restart without line 122: the start reference stays where it was
RestartNever(t) == start

\* line 122
Restart(t) == t

\* lines 117-124
Lap ==
    /\ pc = "dispatch"
    /\ ~KeyIn(QUIT) /\ KeyIn(TRIG)
    /\ last_lap' = Some(elapsed)
    /\ best_lap' = NewBest(last_lap', best_lap)
    /\ start' = Restart(clock)
    /\ CallRender("lap", 0, last_lap', best_lap')
    /\ laps' = Append(laps, elapsed)
    /\ lapAt' = Some(clock)
    /\ UNCHANGED <<last_draw, locals, img, panel, term, ctl, clock, keys>>
    /\ UNCHANGED <<nev, interrupted, keysRead, iterPushed, shown, sincePush,
                   nfinal, cbreakSet>>
    /\ UNCHANGED fmt

\* ClearLast clearing the best lap in place of the last
ClearLastWrongField ==
    /\ pc = "dispatch"
    /\ ~KeyIn(QUIT) /\ ~KeyIn(TRIG) /\ KeyIn(CLEAR_LAST)
    /\ best_lap' = None
    /\ CallRender("clear_last", elapsed, last_lap, best_lap')
    /\ laps' = <<>>
    /\ UNCHANGED <<start, last_lap, last_draw, locals, img, panel, term, ctl, clock, keys>>
    /\ UNCHANGED <<nev, interrupted, lapAt, keysRead, iterPushed, shown, sincePush,
                   nfinal, cbreakSet>>
    /\ UNCHANGED fmt

\* lines 125-128
ClearLast ==
    /\ pc = "dispatch"
    /\ ~KeyIn(QUIT) /\ ~KeyIn(TRIG) /\ KeyIn(CLEAR_LAST)
    /\ last_lap' = None
    /\ CallRender("clear_last", elapsed, last_lap', best_lap)
    /\ UNCHANGED <<start, best_lap, last_draw, locals, img, panel, term, ctl, clock, keys>>
    /\ UNCHANGED <<nev, interrupted, lapHist, keysRead, iterPushed, shown, sincePush,
                   nfinal, cbreakSet>>
    /\ UNCHANGED fmt

\* ClearBest that also restarts the timer
ClearBestRestarts ==
    /\ pc = "dispatch"
    /\ ~KeyIn(QUIT) /\ ~KeyIn(TRIG) /\ ~KeyIn(CLEAR_LAST) /\ KeyIn(CLEAR_BEST)
    /\ best_lap' = None
    /\ start' = clock
    /\ CallRender("clear_best", 0, last_lap, best_lap')
    /\ laps' = <<>>
    /\ UNCHANGED <<last_lap, last_draw, locals, img, panel, term, ctl, clock, keys>>
    /\ UNCHANGED <<nev, interrupted, lapAt, keysRead, iterPushed, shown, sincePush,
                   nfinal, cbreakSet>>
    /\ UNCHANGED fmt

\* lines 129-132
ClearBest ==
    /\ pc = "dispatch"
    /\ ~KeyIn(QUIT) /\ ~KeyIn(TRIG) /\ ~KeyIn(CLEAR_LAST) /\ KeyIn(CLEAR_BEST)
    /\ best_lap' = None
    /\ CallRender("clear_best", elapsed, last_lap, best_lap')
    /\ laps' = <<>>
    /\ UNCHANGED <<start, last_lap, last_draw, locals, img, panel, term, ctl, clock, keys>>
    /\ UNCHANGED <<nev, interrupted, lapAt, keysRead, iterPushed, shown, sincePush,
                   nfinal, cbreakSet>>
    /\ UNCHANGED fmt

\* no key, or a key of no class: control reaches line 135
FallsThrough == ~KeyIn(QUIT \cup TRIG \cup CLEAR_LAST \cup CLEAR_BEST)

\* Due that any key byte forces
DueOrKey == now - last_draw >= FrameInterval \/ ch # None

\* line 135
Due == now - last_draw >= FrameInterval

\* lines 135-136
TickRender ==
    /\ pc = "dispatch"
    /\ FallsThrough
    /\ Due
    /\ CallRender("tick", elapsed, last_lap, best_lap)
    /\ UNCHANGED <<watch, locals, img, panel, term, ctl, clock, keys>>
    /\ UNCHANGED <<nev, interrupted, lapHist, keysRead, iterPushed, shown, sincePush,
                   nfinal, cbreakSet>>
    /\ UNCHANGED fmt

\* line 135 false: the next iteration
NoRender ==
    /\ pc = "dispatch"
    /\ FallsThrough
    /\ ~Due
    /\ pc' = "top"
    /\ UNCHANGED <<call, watch, locals, img, panel, term, ctl, clock, keys>>
    /\ UNCHANGED <<nev, interrupted, lapHist, keysRead, iterPushed, shown, sincePush,
                   nfinal, cbreakSet>>
    /\ UNCHANGED <<fmt, npush>>

\* line 137
Mark ==
    /\ pc = "mark"
    /\ last_draw' = now
    /\ pc' = "top"
    /\ UNCHANGED <<call, start, last_lap, best_lap, locals, img, panel, term, ctl,
                   clock, keys>>
    /\ UNCHANGED <<nev, interrupted, lapHist, keysRead, iterPushed, shown, sincePush,
                   nfinal, cbreakSet>>
    /\ UNCHANGED <<fmt, npush>>

\* ------------------------------------------------------------ exceptions
\* Where an exception raised at statement p (render called from site s) takes
\* control.  Before the try block (lines 105-106) nothing catches it and the
\* process ends.  Inside __enter__ the with block is not yet entered, so only
\* the finally block runs.  Inside the with block __exit__ runs first.  At
\* line 88 the exception comes either from the block (then __exit__ still
\* runs) or from inside __exit__ ahead of tcsetattr (then only the finally
\* block runs); likewise at line 139 it comes from the end of the try block or
\* from inside the finally block, which it then leaves.
UnwindTargets(p, s) ==
    IF p \in {"first", "try"} \/ (p \in RenderPcs /\ s = "first") THEN {"done"}
    ELSE IF p \in EnterPcs THEN {"fin_clear"}
    ELSE IF p \in LoopPcs \cup RenderPcs THEN {"exit_restore"}
    ELSE IF p = "exit_restore" THEN {"exit_restore", "fin_clear"}
    ELSE IF p = "fin_clear" THEN {"fin_clear", "done"}
    ELSE {"done"}

Raise(kind) ==
    \E t \in UnwindTargets(pc, site) :
        /\ pc' = t
        /\ exc' = kind
        /\ exitBy' = IF t = "done" THEN kind ELSE exitBy

\* line 97: the handler raises SystemExit wherever the main thread is
SigInt ==
    /\ pc # "done"
    /\ nev < MaxEvents
    /\ nev' = nev + 1
    /\ interrupted' = TRUE
    /\ Raise("SystemExit")
    /\ UNCHANGED <<call, watch, locals, img, panel, term, clock, keys>>
    /\ UNCHANGED <<lapHist, keysRead, iterPushed, shown, sincePush, nfinal, cbreakSet>>
    /\ UNCHANGED <<fmt, npush>>

\* an unexpected error raised by the panel driver (line 73) or by the read of
\* the terminal (lines 91-92)
Fail ==
    /\ pc \in {"r_push", "poll"}
    /\ nev < MaxEvents
    /\ nev' = nev + 1
    /\ Raise("Error")
    /\ UNCHANGED <<call, watch, locals, img, panel, term, clock, keys>>
    /\ UNCHANGED <<interrupted, lapHist, keysRead, iterPushed, shown, sincePush,
                   nfinal, cbreakSet>>
    /\ UNCHANGED <<fmt, npush>>

\* ----------------------------------------------------------- environment
Min2(a, b) == IF a < b THEN a ELSE b

\* Time passes.  The process spends time waiting in select() (line 91) and
\* sending a frame to the panel (line 73); one of the two lies between any
\* two reads of the clock.
Tick ==
    /\ pc \in {"poll", "r_push"}
    /\ nev < MaxEvents
    /\ nev' = nev + 1
    /\ clock' = clock + 1
    /\ sincePush' = Min2(sincePush + 1, FrameInterval)
    /\ UNCHANGED <<pc, call, watch, locals, img, panel, term, ctl, keys>>
    /\ UNCHANGED <<interrupted, lapHist, keysRead, iterPushed, shown, nfinal, cbreakSet>>
    /\ UNCHANGED <<fmt, npush>>

\* A key is typed; in cbreak mode its byte is queued at once.  The queue is
\* looked at by read_key() only, so a byte typed at any time of an iteration
\* is one that is there when select() is called or that arrives while it waits.
KeyPress ==
    /\ pc = "poll"
    /\ ~tattr.icanon
    /\ nev < MaxEvents
    /\ nev' = nev + 1
    /\ \E k \in Keys : fdq' = Append(fdq, k)
    /\ UNCHANGED <<pc, call, watch, locals, img, panel, term, ctl, clock, pybuf>>
    /\ UNCHANGED <<interrupted, lapHist, keysRead, iterPushed, shown, sincePush,
                   nfinal, cbreakSet>>
    /\ UNCHANGED <<fmt, npush>>

\* a clock anomaly: a read of the clock earlier than a previous one
ClockRegress ==
    /\ pc \in {"poll", "r_push"}
    /\ nev < MaxEvents
    /\ nev' = nev + 1
    /\ \E d \in RegressSteps : clock - d >= 0 /\ clock' = clock - d
    /\ UNCHANGED <<pc, call, watch, locals, img, panel, term, ctl, keys>>
    /\ UNCHANGED <<interrupted, lapHist, keysRead, iterPushed, shown, sincePush,
                   nfinal, cbreakSet>>
    /\ UNCHANGED <<fmt, npush>>

\* -------------------------------------------------------- specifications
Step ==
    \/ FirstFrame \/ RenderClear \/ RenderTop \/ RenderBottom \/ RenderPush
    \/ Try \/ EnterGet \/ EnterSet \/ EnterRet
    \/ Top \/ ReadKey \/ Quit \/ Lap \/ ClearLast \/ ClearBest \/ TickRender
    \/ NoRender \/ Mark
    \/ ExitRestore \/ FinClear \/ FinPush

Next == Step \/ SigInt \/ Fail \/ Tick \/ KeyPress

Spec == Init /\ [][Next]_vars

\* The loop under a clock that may regress, in runs that no interrupt and no
\* error cuts short.
NextRegress == Step \/ Tick \/ KeyPress \/ ClockRegress

SpecRegress == Init /\ [][NextRegress]_vars

\* The same program under the interpreter's scheduling: a process that can
\* execute its next statement does so.  The environment is not obliged to do
\* anything.
SpecLive == Init /\ [][Next]_vars /\ WF_vars(Step)

\* -------------------------------------------------------- fmt_time alone
\* The durations fmt_time is called on: minutes, seconds and milliseconds
\* around every change in the number of digits, and every fifth of a
\* millisecond in between.
FmtMinutes == {0, 1, 9, 10, 59, 100}
FmtSeconds == {0, 5, 9, 59}
FmtMillis == 0 .. 999
FmtSubMs == 0 .. (UnitsPerMs - 1)

FmtInputs ==
    {m * UnitsPerMin + sec * (1000 * UnitsPerMs) + ms * UnitsPerMs + u :
        m \in FmtMinutes, sec \in FmtSeconds, ms \in FmtMillis, u \in FmtSubMs}

InitFmt ==
    /\ pc = "fmt"
    /\ fmt_arg \in FmtInputs
    /\ fmt_ret = <<>>
    /\ clock = StartClock
    /\ tattr = Cooked
    /\ site = "none"
    /\ rargs = NoArgs
    /\ start = clock
    /\ last_lap = None
    /\ best_lap = None
    /\ last_draw = 0
    /\ now = 0 /\ elapsed = 0 /\ ch = None
    /\ img = Black
    /\ panel = Black
    /\ old = None
    /\ exc = "none"
    /\ exitBy = "running"
    /\ fdq = <<>> /\ pybuf = <<>>
    /\ nev = 0
    /\ interrupted = FALSE
    /\ laps = <<>>
    /\ lapAt = None
    /\ keysRead = 0
    /\ iterPushed = FALSE
    /\ shownBy = "none"
    /\ shownArgs = NoArgs
    /\ gap = None
    /\ sincePush = 0
    /\ nfinal = 0
    /\ cbreakSet = FALSE
    /\ npush = 0

\* lines 38-40: a call of fmt_time(t)
FmtCall ==
    /\ pc = "fmt"
    /\ fmt_ret' = fmt_time(fmt_arg)
    /\ pc' = "fmt_done"
    /\ UNCHANGED <<fmt_arg, call, watch, locals, img, panel, term, ctl, clock, keys>>
    /\ UNCHANGED <<nev, interrupted, lapHist, keysRead, iterPushed, shown, sincePush,
                   nfinal, cbreakSet, npush>>

NextFmt == FmtCall

SpecFmt == InitFmt /\ [][NextFmt]_vars

\* ---------------------------------------------------------------- claims
RECURSIVE SeqMin(_)
SeqMin(q) ==
    IF Len(q) = 1 THEN q[1]
    ELSE LET m == SeqMin(Tail(q)) IN IF q[1] < m THEN q[1] ELSE m

ZeroText == <<"0", "0", ":", "0", "0", ".", "0", "0", "0">>

StateKeys == TRIG \cup CLEAR_LAST \cup CLEAR_BEST

\* the step in which the loop handles a key of class S: the key's branch is
\* taken and calls render()
Handles(S) == pc = "dispatch" /\ KeyIn(S) /\ pc' = "r_clear"

\* C1: with d1..dn the durations the Lap-triggers recorded since process start
\* or since the last Clear-best (n >= 1), whatever Clear-last keys, other keys
\* and ticks came between, best_lap is min(d1..dn).
C1_BestIsMinOfLaps == laps # <<>> => best_lap = Some(SeqMin(laps))

\* two laps, the second the longer one: the minimum is not the last lap
C1_Witness ==
    /\ Len(laps) >= 2
    /\ laps[1] < laps[2]
    /\ best_lap = Some(laps[1])
    /\ last_lap = Some(laps[2])

\* C2: once a Quit key is read, the iteration that read it renders no frame;
\* the program that then runs to its end has pushed exactly one all-black
\* frame, and that frame is the last one the display received.
C2_QuitPushesOneBlankFrame ==
    /\ (pc \in {"exit_restore", "fin_clear", "fin_push"} /\ exc = "none")
            => (KeyIn(QUIT) /\ ~iterPushed /\ nfinal = 0)
    /\ exitBy = "end"
            => (KeyIn(QUIT) /\ nfinal = 1 /\ shownBy = "final" /\ panel = Black)
    /\ nfinal <= 1
    /\ nfinal = 1 => (pc = "done" /\ shownBy = "final")

\* the program has ended by a Quit key, after a lap was shown
C2_Witness == exitBy = "end" /\ KeyIn(QUIT) /\ nfinal = 1 /\ last_lap # None

\* C3: a process that an interrupt reached has ended like one that read a Quit
\* key: terminal attributes as at process start, exactly one final black
\* frame, and that frame the last one the display received.
C3_InterruptEndsLikeQuit ==
    (pc = "done" /\ interrupted)
        => (tattr = Cooked /\ nfinal = 1 /\ shownBy = "final" /\ panel = Black)

\* C4: a process that entered cbreak mode ends, on whatever path, with the
\* terminal attributes it saved.
C4_TerminalRestoredOnExit ==
    (pc = "done" /\ cbreakSet) => tattr = Val(old)

\* C5: while no key has been read, two consecutive frames are at least the
\* frame interval apart; and an iteration that read a Lap-trigger, Clear-last
\* or Clear-best key has pushed a frame when the next iteration begins.
C5_ThrottleAndForcedRender ==
    /\ (keysRead = 0 /\ gap # None /\ shownBy # "final") => Val(gap) >= FrameInterval
    /\ (pc = "top" /\ KeyIn(StateKeys)) => iterPushed

\* C6: the frame a Lap-trigger renders shows 00:00.000, and from then on the
\* elapsed time the loop computes is the clock time since that Lap-trigger
\* was handled.
C6_LapRestartsTimer ==
    /\ shownBy = "lap" => (shownArgs.cur = 0 /\ panel.cur = ZeroText)
    /\ (pc \in {"poll", "dispatch"} /\ lapAt # None) => elapsed = now - Val(lapAt)

\* a lap taken after the clock had moved, and time measured since that lap
C6_Witness ==
    /\ pc = "dispatch"
    /\ lapAt # None
    /\ Val(lapAt) > StartClock
    /\ elapsed > 0
    /\ shownBy = "lap"

\* C7: the step that handles a Clear-last key unsets last_lap, leaves best_lap
\* and start (and the iteration's elapsed) as they were and renders that
\* elapsed; the frame it pushes shows "--" for the last lap.
C7_ClearLast ==
    /\ [][Handles(CLEAR_LAST) =>
            /\ last_lap' = None
            /\ best_lap' = best_lap /\ start' = start /\ elapsed' = elapsed
            /\ rargs' = [cur |-> elapsed, last |-> None, best |-> best_lap]]_vars
    /\ [](shownBy = "clear_last" =>
            /\ shownArgs.last = None /\ panel.last = Placeholder
            /\ panel.best = OptText(shownArgs.best)
            /\ panel.cur = fmt_time(Secs(shownArgs.cur)))

\* a Clear-last frame on the display while a best lap is set
C7_Witness ==
    /\ shownBy = "clear_last"
    /\ panel.last = Placeholder
    /\ best_lap # None
    /\ panel.best # Placeholder

\* C8: the step that handles a Clear-best key unsets best_lap, leaves last_lap
\* and start (and the iteration's elapsed) as they were and renders that
\* elapsed; the frame it pushes shows "--" for the best lap.
C8_ClearBest ==
    /\ [][Handles(CLEAR_BEST) =>
            /\ best_lap' = None
            /\ last_lap' = last_lap /\ start' = start /\ elapsed' = elapsed
            /\ rargs' = [cur |-> elapsed, last |-> last_lap, best |-> None]]_vars
    /\ [](shownBy = "clear_best" =>
            /\ shownArgs.best = None /\ panel.best = Placeholder
            /\ panel.last = OptText(shownArgs.last)
            /\ panel.cur = fmt_time(Secs(shownArgs.cur)))

\* a Clear-best frame on the display while a last lap is set, some time into
\* the run
C8_Witness ==
    /\ shownBy = "clear_best"
    /\ panel.best = Placeholder
    /\ last_lap # None
    /\ panel.last # Placeholder
    /\ shownArgs.cur > 0

\* C9: best_lap changes only by a Lap-trigger, from unset to set or from a
\* value to a smaller one, or by a Clear-best key, from set to unset.
C9_BestLapTransitions ==
    [][best_lap' # best_lap =>
        \/ /\ Handles(TRIG)
           /\ best_lap' # None
           /\ best_lap = None \/ Val(best_lap') < Val(best_lap)
        \/ /\ Handles(CLEAR_BEST)
           /\ best_lap # None /\ best_lap' = None]_vars

\* a second lap has lowered the best lap
C9_Witness ==
    /\ Len(laps) >= 2
    /\ laps[2] < laps[1]
    /\ best_lap = Some(laps[2])

\* a text that shows no negative number
NotNegative(text) == Head(text) # "-"

\* the text shown for the value o, when set, is not negative, and is 00:00.000
\* when o is negative
ShownFloor(o, text) ==
    o # None => (NotNegative(text) /\ (Val(o) < 0 => text = ZeroText))

\* C10: under a clock that regresses, no time on a frame is negative, and a
\* negative elapsed, last-lap or best-lap value is shown as 00:00.000.
C10_NoNegativeTimeShown ==
    shownBy \notin {"none", "final"} =>
        /\ ShownFloor(Some(shownArgs.cur), panel.cur)
        /\ ShownFloor(shownArgs.last, panel.last)
        /\ ShownFloor(shownArgs.best, panel.best)

\* a frame rendered from a negative elapsed, last lap and best lap
C10_Witness ==
    /\ shownBy \notin {"none", "final"}
    /\ shownArgs.cur < 0
    /\ shownArgs.last # None /\ Val(shownArgs.last) < 0
    /\ shownArgs.best # None /\ Val(shownArgs.best) < 0
    /\ panel.cur = ZeroText /\ panel.last = ZeroText /\ panel.best = ZeroText

\* a key byte of none of the four classes was read
UnknownKey == ch # None /\ FallsThrough

\* C11: the step that handles a key byte of none of the four classes leaves
\* start, last_lap and best_lap as they were and calls render() only when the
\* frame interval has passed since last_draw, as the step of an iteration
\* that read no key does; a frame pushed in such an iteration is a tick frame.
C11_UnknownKeyIgnored ==
    /\ [][(pc = "dispatch" /\ FallsThrough) =>
            /\ UnknownKey =>
                  (start' = start /\ last_lap' = last_lap /\ best_lap' = best_lap)
            /\ pc' = "r_clear" => (now - last_draw >= FrameInterval /\ site' = "tick")
            /\ pc' = "top" => now - last_draw < FrameInterval]_vars
    /\ []((UnknownKey /\ iterPushed /\ pc \in LoopPcs) => shownBy = "tick")

\* a key of no class was read after a lap, within the frame interval of the
\* last tick frame, and the iteration has ended without a frame
C11_Witness ==
    /\ pc = "top"
    /\ UnknownKey
    /\ ~iterPushed
    /\ last_lap # None
    /\ now - last_draw < FrameInterval

\* a Quit key has been read or an interrupt delivered
Stopped == interrupted \/ KeyIn(QUIT)

\* the process has ended after restoring the terminal attributes it saved and
\* pushing the final black frame
EndedCleanly ==
    /\ pc = "done"
    /\ cbreakSet => tattr = Val(old)
    /\ nfinal = 1 /\ shownBy = "final" /\ panel = Black

\* C12: once a Quit key is read or an interrupt is delivered no further key
\* byte is read and the process eventually ends, with the terminal restored
\* and the final black frame pushed; and a poll can always return.
C12_StopEndsCleanly ==
    /\ [][Stopped => keysRead' = keysRead]_vars
    /\ [](pc = "poll" => ENABLED ReadKey)
    /\ Stopped ~> EndedCleanly

\* ---- reading a text MM:SS.mmm back
Digits == {Digit(d) : d \in 0 .. 9}
DigitVal(c) == CHOOSE d \in 0 .. 9 : Digit(d) = c
IsDigits(q) == \A i \in 1 .. Len(q) : q[i] \in Digits

RECURSIVE ParseNum(_)
ParseNum(q) ==
    IF q = <<>> THEN 0
    ELSE ParseNum(SubSeq(q, 1, Len(q) - 1)) * 10 + DigitVal(q[Len(q)])

\* the text before the first ":" and the text after it
HasColon(text) == \E i \in 1 .. Len(text) : text[i] = ":"
ColonAt(text) == CHOOSE i \in 1 .. Len(text) : text[i] = ":" /\ \A j \in 1 .. (i - 1) : text[j] # ":"
MinutesField(text) == SubSeq(text, 1, ColonAt(text) - 1)
SecondsField(text) == SubSeq(text, ColonAt(text) + 1, Len(text))

\* the text is MM:SS.mmm: at least two digits of minutes, without a needless
\* leading zero, two of seconds and three of milliseconds
WellFormed(text) ==
    /\ HasColon(text)
    /\ LET mm == MinutesField(text)
           sf == SecondsField(text)
       IN  /\ Len(mm) >= 2 /\ IsDigits(mm)
           /\ Len(mm) > 2 => Head(mm) # "0"
           /\ Len(sf) = 6 /\ sf[3] = "."
           /\ IsDigits(SubSeq(sf, 1, 2)) /\ IsDigits(SubSeq(sf, 4, 6))

ReadMinutes(text) == ParseNum(MinutesField(text))
ReadSeconds(text) == ParseNum(SubSeq(SecondsField(text), 1, 2))
ReadMillis(text) == ParseNum(SubSeq(SecondsField(text), 4, 6))

\* fmt_time's argument for m minutes, sec seconds and ms milliseconds
Duration(m, sec, ms) == ((m * 60 + sec) * 1000 + ms) * UnitsPerMs

\* C13: of a duration that is a whole number of milliseconds fmt_time returns
\* MM:SS.mmm from which the whole minutes, the seconds within the minute and
\* the milliseconds are read back exactly; 0.0 gives 00:00.000, 65.25 gives
\* 01:05.250 and 3599.999 gives 59:59.999.
C13_FmtTimeRoundTrip ==
    (pc = "fmt_done" /\ fmt_arg % UnitsPerMs = 0) =>
        LET ms == fmt_arg \div UnitsPerMs
        IN  /\ WellFormed(fmt_ret)
            /\ ReadMinutes(fmt_ret) = ms \div 60000
            /\ ReadSeconds(fmt_ret) = (ms \div 1000) % 60
            /\ ReadMillis(fmt_ret) = ms % 1000
            /\ fmt_arg = Duration(0, 0, 0) => fmt_ret = ZeroText
            /\ fmt_arg = Duration(1, 5, 250)
                    => fmt_ret = <<"0", "1", ":", "0", "5", ".", "2", "5", "0">>
            /\ fmt_arg = Duration(59, 59, 999)
                    => fmt_ret = <<"5", "9", ":", "5", "9", ".", "9", "9", "9">>

\* fmt_time has returned the text of 3599.999 s
C13_Witness ==
    /\ pc = "fmt_done"
    /\ fmt_arg = Duration(59, 59, 999)
    /\ fmt_ret = <<"5", "9", ":", "5", "9", ".", "9", "9", "9">>

\* C14: when render() has returned from pushing a frame, from whatever call
\* site, and line 137 has run where it follows, last_draw is the clock's
\* reading at that push.  (The clock does not move between a push and these
\* states.)
C14_LastDrawIsLastPush ==
    (pc \in {"try", "top"} /\ iterPushed) => last_draw = clock

\* C15: the step that handles a Lap-trigger records now - start as last_lap
\* and makes that same now the new start, so that consecutive laps add up to
\* the clock time between the first start and the last restart.
C15_LapAndRestartShareReading ==
    [][Handles(TRIG) => (last_lap' = Some(now - start) /\ start' = now)]_vars

\* C16: whenever best_lap and last_lap are both set, best_lap <= last_lap.
C16_BestNotAboveLast ==
    (best_lap # None /\ last_lap # None) => Val(best_lap) <= Val(last_lap)

\* three keys have been handled and the last lap is longer than the best
C16_Witness ==
    /\ best_lap # None /\ last_lap # None
    /\ Val(best_lap) < Val(last_lap)
    /\ keysRead >= 3
    /\ pc = "top"

\* C17: under a clock that regresses the elapsed time the loop computes is
\* never negative, so neither is a last_lap or best_lap that is set.
C17_ElapsedNeverNegative ==
    /\ elapsed >= 0
    /\ last_lap # None => Val(last_lap) >= 0
    /\ best_lap # None => Val(best_lap) >= 0

\* C18: a call of read_key that returned "no input" left no key byte behind
\* that had arrived and was not yet returned: neither in the terminal's queue
\* nor in the buffer of sys.stdin.
C18_PendingKeyIsRead ==
    (pc = "dispatch" /\ ch = None) => (fdq = <<>> /\ pybuf = <<>>)

\* the complete drawing of the durations a
Drawing(a) ==
    [best |-> OptText(a.best), cur |-> fmt_time(Secs(a.cur)),
     last |-> OptText(a.last), hint |-> TRUE]

\* C19: a call of render() that returns has pushed exactly one frame, the one
\* drawn from its arguments, and what the display holds is always a complete
\* frame: the drawing of one (elapsed, last_lap, best_lap), or all black at
\* the start and after the final clear; an interrupt inside render() changes
\* none of this.
C19_OnlyCompleteFrames ==
    /\ shownBy \in {"none", "final"} => panel = Black
    /\ shownBy \notin {"none", "final"} => panel = Drawing(shownArgs)
    /\ pc \in RenderPcs => npush = 0
    /\ npush <= 1
    /\ (pc \in {"try", "mark"} \/ (pc = "top" /\ iterPushed))
            => (npush = 1 /\ shownBy = site /\ shownArgs = rargs)

\* an interrupt has cut short the render of a lap when the buffer was partly
\* drawn; the display still holds the complete frame before it
C19_Witness ==
    /\ pc = "exit_restore"
    /\ interrupted
    /\ site = "lap" /\ npush = 0
    /\ img.cur # <<>> /\ ~img.hint
    /\ shownBy # "none"
    /\ panel = Drawing(shownArgs)

\* C20: the seconds field of the text fmt_time returns for a duration >= 0,
\* sub-millisecond part or not, is between 00.000 and 59.999.
C20_SecondsFieldBelowSixty ==
    pc = "fmt_done" => (WellFormed(fmt_ret) /\ ReadSeconds(fmt_ret) <= 59)

====
